---------------------------- MODULE Spec2Model ----------------------------
(***************************************************************************)
(* Model of the codescanner VS Code extension (src/src/extension.ts):      *)
(* the Finding Store kept by SecurityScanResultsProvider, the             *)
(* extension.startScan command handler and the diagnostics it publishes,   *)
(* the panel of SecurityScanWebviewProvider with its webview and its two   *)
(* globalState keys, and runSecurityScan with its filename normalization.  *)
(*                                                                         *)
(* JavaScript runs a handler to completion between two awaits, so every    *)
(* action below is one such segment: it begins where an awaited call       *)
(* settles and ends at the next await (or at the end of the handler).      *)
(*                                                                         *)
(* Strings whose content matters (filenames, vulnerability names, keys)    *)
(* are sequences of one-character strings, so that concatenation, the '|'  *)
(* separator and prefixes are computed and not assumed.                    *)
(***************************************************************************)
EXTENDS Integers, Sequences, FiniteSets, TLC

VARIABLES
    scanning,          \* SecurityScanResultsProvider.scanning
    findings,          \* SecurityScanResultsProvider.findings
    treeItemCounter,   \* SecurityScanResultsProvider.treeItemCounter
    dirty,             \* an onDidChangeTreeData event is pending in the host
    origin,            \* history: for each stored Finding, <<invocation, phase>> that appended it
    call,              \* history: the last Finding Store operation and what it did
    rootNodes,         \* what the last getChildren() at the root returned
    issued,            \* history: the ids given to Finding nodes since the last clearFindings()
    pc,                \* per invocation of extension.startScan: the await it is suspended at
    allDependencies,   \* per invocation: local allDependencies, <<>> once it has ended
    codeFiles,         \* per invocation: local codeFiles (kept after the end)
    fileIdx,           \* per invocation: position of the for..of loop in codeFiles
    collection,        \* per invocation: the DiagnosticCollection it created
    stale,             \* diagnostics held by collections of earlier invocations
    attempted,         \* history, per invocation: files whose read was attempted, in order
    reported,          \* history: what the last handler segment reported, as <<kind, unit>>
    view,              \* SecurityScanWebviewProvider._view: "none" or "resolved"
    latestFindings,    \* SecurityScanWebviewProvider._latestFindings
    globalState,       \* context.globalState: what is stored under the two keys
    webview,           \* what the webview shows: its spinner and window._currentFindings
    run,               \* the runSecurityScan() call of the panel's startScan message
    workspaceFolders,  \* vscode.workspace.workspaceFolders: the first root, or none
    replay             \* history: what the last resolveWebviewView found and posted

vars == <<scanning, findings, treeItemCounter, dirty, origin, call, rootNodes, issued, pc,
          allDependencies, codeFiles, fileIdx, collection, stale,
          attempted, reported, view, latestFindings, globalState, webview, run,
          workspaceFolders, replay>>

treeVars == <<scanning, findings, treeItemCounter, dirty, origin, call, rootNodes,
              issued>>
scanVars == <<pc, allDependencies, codeFiles, fileIdx, collection, stale,
              attempted, reported>>
panelVars == <<view, latestFindings, globalState, webview, run, replay>>

-----------------------------------------------------------------------------
(* Bounds of the model *)

MaxFiles == 2          \* longest list findSourceCodeFiles returns
MaxManifests == 2      \* longest list findDependencyFiles returns
MaxBatch == 2          \* longest batch handed directly to addFindings
MaxCounter == 6        \* cap on treeItemCounter
MaxPath == 5           \* longest filename handed to the normalization
MaxName == 2           \* longest filename and vulnerability name given to key()

\* concurrent invocations of the extension.startScan command handler
Invocations == {"s1", "s2"}

-----------------------------------------------------------------------------
(* Strings and values *)

Digit == <<"0", "1", "2", "3", "4", "5", "6", "7", "8", "9">>

RECURSIVE NumStr(_)
\* String(n) for a non-negative integer
NumStr(n) == IF n < 10 THEN <<Digit[n + 1]>>
             ELSE NumStr(n \div 10) \o <<Digit[(n % 10) + 1]>>

RECURSIVE Join(_, _)
\* Array.prototype.join over an array of numbers
Join(xs, sep) == IF Len(xs) = 0 THEN <<>>
                 ELSE IF Len(xs) = 1 THEN NumStr(xs[1])
                 ELSE NumStr(xs[1]) \o sep \o Join(Tail(xs), sep)

\* what a template literal prints for a missing member
UndefinedStr == <<"u", "n", "d", "e", "f", "i", "n", "e", "d">>

\* `${f.name}` : the member's text, or "undefined" when the record lacks it
Interp(f, name) == IF name \in DOMAIN f THEN f[name] ELSE UndefinedStr

\* f.lines_affected ?? []
LinesOrEmpty(f) == IF "lines_affected" \in DOMAIN f THEN f.lines_affected ELSE <<>>

\* JSON null, also as an element of a findings array
JNull == [tag |-> "null"]

\* the identity key of addFindings (line 35); defined for records only
key(f) == Interp(f, "filename") \o <<"|">> \o Join(LinesOrEmpty(f), <<",">>)
          \o <<"|">> \o Interp(f, "vulnerability")

-----------------------------------------------------------------------------
(* Findings used as inputs *)

FA == [vulnerability |-> <<"x">>, risk_score |-> "high",
       filename |-> <<"a">>, lines_affected |-> <<10>>]
\* same key as FA, other members differ
FA2 == [vulnerability |-> <<"x">>, risk_score |-> "low",
        filename |-> <<"a">>, lines_affected |-> <<10>>]
FB == [vulnerability |-> <<"y">>, risk_score |-> "medium",
       filename |-> <<"b">>, lines_affected |-> <<>>]
\* a record without lines_affected
FC == [vulnerability |-> <<"y">>, risk_score |-> "low", filename |-> <<"b">>]

FindingInputs == {FA, FA2, FC}

\* the batches the store is driven with directly
Batches == UNION {[1..n -> FindingInputs \cup {JNull}] : n \in 0..MaxBatch}

-----------------------------------------------------------------------------
(* SecurityScanResultsProvider *)

\* line 36: the set `existingKeys`
KeySet(fs) == {key(fs[i]) : i \in 1..Len(fs)}

\* key(f) throws a TypeError for some element of the batch (f is null)
KeyThrows(newFindings) == \E i \in 1..Len(newFindings) : newFindings[i] = JNull

\* faulty variant: the filter is left out
DedupedNoFilter(fs, newFindings) == newFindings

RECURSIVE DedupedOnce(_, _)
\* faulty variant: the filter also looks at the keys accepted earlier in the batch
DedupedOnce(fs, newFindings) ==
    IF Len(newFindings) = 0 THEN <<>>
    ELSE IF key(Head(newFindings)) \in KeySet(fs)
         THEN DedupedOnce(fs, Tail(newFindings))
         ELSE <<Head(newFindings)>>
              \o DedupedOnce(fs \o <<Head(newFindings)>>, Tail(newFindings))

\* line 37: the elements of newFindings that survive the filter
Deduped(fs, newFindings) ==
    LET existingKeys == KeySet(fs)
    IN  SelectSeq(newFindings, LAMBDA f : key(f) \notin existingKeys)

\* faulty variant: unshift in place of push
PushedFront(fs, deduped) == deduped \o fs

\* line 38: this.findings.push(...deduped)
Pushed(fs, deduped) == fs \o deduped

\* faulty variant: the array is replaced by the survivors
addFindingsReplace(fs, newFindings) ==
    IF KeyThrows(newFindings) THEN fs
    ELSE Deduped(fs, newFindings)

\* faulty variant: a later record with a stored key takes the place of the
\* stored one
addFindingsLastWins(fs, newFindings) ==
    IF KeyThrows(newFindings) THEN fs
    ELSE Pushed([i \in 1..Len(fs) |->
                    IF \E j \in 1..Len(newFindings) : key(newFindings[j]) = key(fs[i])
                    THEN newFindings[CHOOSE j \in 1..Len(newFindings) :
                                        key(newFindings[j]) = key(fs[i])]
                    ELSE fs[i]],
                Deduped(fs, newFindings))

\* addFindings(newFindings) on the array fs: the array afterwards.  When
\* key() throws, the filter is abandoned before the push and the refresh.
addFindings(fs, newFindings) ==
    IF KeyThrows(newFindings) THEN fs
    ELSE Pushed(fs, Deduped(fs, newFindings))

\* history kept beside addFindings: `who` appended the Findings that
\* turn the array fs into the array after
addOrigin(og, fs, after, who) ==
    Pushed(og, [i \in 1..(Len(after) - Len(fs)) |-> who])

\* history: an operation that is not addFindings
NoCall(op) == [op |-> op, arg |-> <<>>, appended |-> 0, dropped |-> 0]

\* history: addFindings(newFindings) turned the array fs into the array after
AddCall(fs, after, newFindings) ==
    [op |-> "addFindings", arg |-> newFindings,
     appended |-> Len(after) - Len(fs),
     dropped |-> Len(newFindings) - (Len(after) - Len(fs))]

\* the state after construction (lines 13-15)
TreeInit ==
    /\ scanning = FALSE
    /\ findings = <<>>
    /\ treeItemCounter = 0
    /\ issued = {}
    /\ dirty = FALSE
    /\ origin = <<>>
    /\ call = NoCall("none")
    /\ rootNodes = <<>>

\* setScanning(scanning), lines 22-25
SetScanning(b) ==
    /\ scanning' = b
    /\ dirty' = TRUE
    /\ call' = NoCall("setScanning")
    /\ UNCHANGED <<findings, treeItemCounter, issued, origin, rootNodes>>

\* addFindings(newFindings), lines 34-40, called from outside a scan
AddFindings(newFindings) ==
    /\ findings' = addFindings(findings, newFindings)
    /\ origin' = addOrigin(origin, findings, findings', <<"caller", "none">>)
    /\ dirty' = IF KeyThrows(newFindings) THEN dirty ELSE TRUE
    /\ call' = AddCall(findings, findings', newFindings)
    /\ UNCHANGED <<scanning, treeItemCounter, issued, rootNodes>>

\* clearFindings(), lines 43-47
ClearFindings ==
    /\ findings' = <<>>
    /\ origin' = <<>>
    /\ treeItemCounter' = 0
    /\ issued' = {}
    /\ dirty' = TRUE
    /\ call' = NoCall("clearFindings")
    /\ UNCHANGED <<scanning, rootNodes>>

\* faulty variant: every Finding that is not high gets the warning icon
IconTwoTier(f) == IF "risk_score" \in DOMAIN f /\ f.risk_score = "high" THEN "error"
                  ELSE "warning"

\* the icon of a Finding node, lines 77-80
Icon(f) == IF "risk_score" \in DOMAIN f /\ f.risk_score = "high" THEN "error"
           ELSE IF "risk_score" \in DOMAIN f /\ f.risk_score = "medium" THEN "warning"
           ELSE "info"

\* `${f.risk_score}` : the text of the risk tier
RiskText(f) ==
    IF "risk_score" \notin DOMAIN f THEN UndefinedStr
    ELSE IF f.risk_score = "high" THEN <<"h", "i", "g", "h">>
    ELSE IF f.risk_score = "medium" THEN <<"m", "e", "d", "i", "u", "m">>
    ELSE <<"l", "o", "w">>

\* the label of a Finding node, line 73
Label(f) == Interp(f, "vulnerability") \o <<" ", "(">> \o RiskText(f) \o <<")">>

\* faulty variant: the ids are the positions in the array
RootLevelByIndex(sc, fs, counter) ==
    IF sc THEN <<[kind |-> "scanning"]>>
    ELSE <<[kind |-> "startScan"]>> \o
         [i \in 1..Len(fs) |->
             [kind |-> "finding", id |-> i - 1, label |-> Label(fs[i]),
              icon |-> Icon(fs[i]), vulnerabilityData |-> fs[i]]]

\* faulty variant: the spinner is put in front of the usual root level
RootLevelWithSpinner(sc, fs, counter) ==
    (IF sc THEN <<[kind |-> "scanning"]>> ELSE <<>>) \o
    <<[kind |-> "startScan"]>> \o
    [i \in 1..Len(fs) |->
        [kind |-> "finding", id |-> counter + i - 1, label |-> Label(fs[i]),
         icon |-> Icon(fs[i]), vulnerabilityData |-> fs[i]]]

\* the root level getChildren() computes, lines 56-91
RootLevel(sc, fs, counter) ==
    IF sc THEN <<[kind |-> "scanning"]>>
    ELSE <<[kind |-> "startScan"]>> \o
         [i \in 1..Len(fs) |->
             [kind |-> "finding", id |-> counter + i - 1, label |-> Label(fs[i]),
              icon |-> Icon(fs[i]), vulnerabilityData |-> fs[i]]]

\* the host asks for the root level: getChildren(undefined)
GetChildren ==
    /\ treeItemCounter + Len(findings) <= MaxCounter
    /\ rootNodes' = RootLevel(scanning, findings, treeItemCounter)
    /\ treeItemCounter' = IF scanning THEN treeItemCounter
                          ELSE treeItemCounter + Len(findings)
    /\ issued' = issued \cup {rootNodes'[i].id :
                                i \in {j \in 1..Len(rootNodes') : rootNodes'[j].kind = "finding"}}
    /\ dirty' = FALSE
    /\ call' = NoCall("getChildren")
    /\ UNCHANGED <<scanning, findings, origin>>

-----------------------------------------------------------------------------
(* Collaborators: manifests, source files, analyzer responses *)

\* Manifests findDependencyFiles can return.  "pkgBad" is a package.json
\* whose content JSON.parse rejects, so parsePackageJson throws.
Manifests == {"req", "reqEmpty", "pkg", "pkgBad"}

\* parseRequirementsTxt / parsePackageJson followed by the map to specifiers
Specifiers(m) == IF m = "req" THEN <<"flask==1.0">>
                 ELSE IF m = "pkg" THEN <<"lodash@4.17.0">>
                 ELSE <<>>

ParseThrows(m) == m = "pkgBad"

\* Source files findSourceCodeFiles can return; readCodeFile throws on "u"
Files == {"f1", "f2", "u"}

Readable(file) == file # "u"

\* sequences without repetition, of length at most n
Lists(S, n) == {l \in UNION {[1..k -> S] : k \in 0..n} :
                   \A i, j \in 1..Len(l) : i # j => l[i] # l[j]}

\* The lists findSourceCodeFiles returns in Spec.  The names of the readable
\* files are interchangeable there, so the first one met is called "f1".
FileLists == {l \in Lists(Files, MaxFiles) :
                 \A j \in 1..Len(l) : l[j] = "f2" => \E i \in 1..(j - 1) : l[i] = "f1"}

\* JSON values
JObj(m) == [tag |-> "object", members |-> m]
JArr(items) == [tag |-> "array", items |-> items]
JStr == [tag |-> "string"]

\* An analyzer response text: whether JSON.parse accepts it, the value it
\* parses to, and the numbers of the Type/Description/Line matches in it.
InvalidText(lines) == [valid |-> FALSE, value |-> JNull, issues |-> lines]
JsonText(v) == [valid |-> TRUE, value |-> v, issues |-> <<>>]
FindingsText(items) == JsonText(JObj([findings |-> JArr(items)]))

\* a findings object wrapped in a Markdown fence: JSON.parse rejects the
\* text although a findings array can be read in it
FencedText(items) == [valid |-> FALSE, value |-> JObj([findings |-> JArr(items)]),
                      issues |-> <<>>]

NotJson == InvalidText(<<>>)
NullText == JsonText(JNull)
NoFindingsText == JsonText(JObj([error |-> JStr]))
NonArrayText == JsonText(JObj([findings |-> JStr]))

DepResponses == {NotJson, FencedText(<<FA>>), NonArrayText, FindingsText(<<FA>>)}

\* texts with Type/Description/Line matches among them, for the diagnostics
CodeResponses == {NotJson, NullText, NoFindingsText, NonArrayText,
                  InvalidText(<<3>>), InvalidText(<<0>>),
                  FindingsText(<<>>), FindingsText(<<FA2>>),
                  FindingsText(<<FB, FC>>), FindingsText(<<JNull>>)}

\* an analyzer call fails: no API key configured, or the request fails
Failures == {"config", "transport"}

\* `parsed && Array.isArray(parsed.findings)`, lines 481 and 512
HasFindingsArray(parsed) ==
    /\ parsed # JNull
    /\ parsed.tag = "object"
    /\ "findings" \in DOMAIN parsed.members
    /\ parsed.members.findings.tag = "array"

\* faulty variant: a lenient parser that reads the findings out of any text
BatchOfLenient(text) ==
    IF HasFindingsArray(text.value)
    THEN text.value.members.findings.items
    ELSE <<>>

\* The inner try block (lines 479-489, 510-520) applied to a response:
\* the batch handed to addFindings, or <<>> when addFindings is not called
BatchOf(text) ==
    IF text.valid /\ HasFindingsArray(text.value)
    THEN text.value.members.findings.items
    ELSE <<>>

\* the inner catch runs: JSON.parse threw, or key() threw inside addFindings
InnerCatch(text) == ~text.valid \/ KeyThrows(BatchOf(text))

\* addFindings ran to its refresh()
Refreshed(text) ==
    text.valid /\ HasFindingsArray(text.value) /\ ~KeyThrows(BatchOf(text))

\* lines 526-535: the 0-based lines of the diagnostics built from the text
DiagLines(text) == [i \in 1..Len(text.issues) |-> text.issues[i] - 1]

\* new vscode.Range(line, 0, line, 100) rejects a negative line
RangeThrows(text) == \E i \in 1..Len(text.issues) : text.issues[i] - 1 < 0

-----------------------------------------------------------------------------
(* The extension.startScan command handler, lines 452-548 *)

NoDiagnostics == [f \in Files |-> <<>>]

Elems(seq) == {seq[i] : i \in 1..Len(seq)}

ScanInit ==
    /\ pc = [p \in Invocations |-> "idle"]
    /\ allDependencies = [p \in Invocations |-> <<>>]
    /\ codeFiles = [p \in Invocations |-> <<>>]
    /\ fileIdx = [p \in Invocations |-> 0]
    /\ collection = [p \in Invocations |-> NoDiagnostics]
    /\ stale = [f \in Files |-> {}]
    /\ attempted = [p \in Invocations |-> <<>>]
    /\ reported = {}

\* lines 455-462: the handler runs up to `await findDependencyFiles()`.
\* createDiagnosticCollection makes a new collection; the one a previous run
\* of the handler created is not disposed and keeps what it published.
StartScan(p) ==
    /\ pc[p] \in {"idle", "rejected"}
    /\ scanning' = TRUE
    /\ findings' = <<>>
    /\ origin' = <<>>
    /\ treeItemCounter' = 0
    /\ issued' = {}
    /\ dirty' = TRUE
    /\ call' = NoCall("startScan")
    /\ stale' = [f \in Files |-> stale[f] \cup Elems(collection[p][f])]
    /\ collection' = [collection EXCEPT ![p] = NoDiagnostics]
    /\ pc' = [pc EXCEPT ![p] = "findDependencyFiles"]
    /\ allDependencies' = [allDependencies EXCEPT ![p] = <<>>]
    /\ codeFiles' = [codeFiles EXCEPT ![p] = <<>>]
    /\ fileIdx' = [fileIdx EXCEPT ![p] = 0]
    /\ attempted' = [attempted EXCEPT ![p] = <<>>]
    /\ reported' = {}
    /\ UNCHANGED rootNodes

\* faulty variant: only the first manifest's specifiers are kept
ConcatFirst(ms) == IF Len(ms) = 0 THEN <<>> ELSE Specifiers(Head(ms))

RECURSIVE Concat(_)
\* allDependencies after the loop of lines 464-472
Concat(ms) == IF Len(ms) = 0 THEN <<>>
              ELSE Specifiers(Head(ms)) \o Concat(Tail(ms))

\* lines 462-476: findDependencyFiles() returned depFiles.  The manifests
\* are parsed outside any try block: a parser that throws rejects the
\* handler's promise and nothing after line 472 runs.
DepFilesFound(p, depFiles) ==
    /\ pc[p] = "findDependencyFiles"
    /\ IF \E i \in 1..Len(depFiles) : ParseThrows(depFiles[i])
       THEN /\ pc' = [pc EXCEPT ![p] = "rejected"]
            /\ UNCHANGED allDependencies
       ELSE /\ allDependencies' = [allDependencies EXCEPT ![p] = Concat(depFiles)]
            /\ pc' = [pc EXCEPT ![p] =
                        IF Len(Concat(depFiles)) > 0 THEN "analyzeDependencies"
                        ELSE "findSourceCodeFiles"]
    /\ reported' = {}
    /\ UNCHANGED <<treeVars, codeFiles, fileIdx, collection, stale, attempted>>

\* lines 476-500: analyzeDependenciesWithChatGPT returned depAnalysis
DepAnalysisReturned(p, depAnalysis) ==
    /\ pc[p] = "analyzeDependencies"
    /\ findings' = addFindings(findings, BatchOf(depAnalysis))
    /\ origin' = addOrigin(origin, findings, findings', <<p, "dep">>)
    /\ dirty' = (dirty \/ Refreshed(depAnalysis))
    /\ call' = NoCall("startScan")
    /\ reported' = IF InnerCatch(depAnalysis)
                   THEN {<<"invalidJson", "deps">>} ELSE {}
    /\ pc' = [pc EXCEPT ![p] = "findSourceCodeFiles"]
    /\ UNCHANGED <<scanning, treeItemCounter, issued, rootNodes, allDependencies,
                   codeFiles, fileIdx, collection, stale, attempted>>

\* faulty variant: the failure is not caught and rejects the handler
AfterDepFailureRethrow == "rejected"

\* where the handler goes on after the catch of lines 494-496
AfterDepFailure == "findSourceCodeFiles"

\* lines 494-500: analyzeDependenciesWithChatGPT threw
DepAnalysisFailed(p, err) ==
    /\ pc[p] = "analyzeDependencies"
    /\ reported' = {<<"failed", "deps">>}
    /\ pc' = [pc EXCEPT ![p] = AfterDepFailure]
    /\ UNCHANGED <<treeVars, allDependencies, codeFiles, fileIdx, collection,
                   stale, attempted>>

\* faulty variant: a read that throws ends the loop
WalkAbort(files, i) ==
    IF i > Len(files) THEN [next |-> i, tried |-> <<>>, failed |-> {}]
    ELSE IF Readable(files[i]) THEN [next |-> i, tried |-> <<i>>, failed |-> {}]
    ELSE [next |-> Len(files) + 1, tried |-> <<i>>, failed |-> {files[i]}]

RECURSIVE Walk(_, _)
\* The for..of loop run from position i until readCodeFile succeeds (the
\* handler then awaits the analyzer) or the list ends: the position reached,
\* the positions whose read was attempted and the files whose read threw.
\* The catch of line 540 is inside the loop, so a throw moves on to i + 1.
Walk(files, i) ==
    IF i > Len(files) THEN [next |-> i, tried |-> <<>>, failed |-> {}]
    ELSE IF Readable(files[i]) THEN [next |-> i, tried |-> <<i>>, failed |-> {}]
    ELSE LET rest == Walk(files, i + 1)
         IN  [next |-> rest.next, tried |-> <<i>> \o rest.tried,
              failed |-> {files[i]} \cup rest.failed]

\* The for..of loop from position i up to its next await or its end
\* (lines 501-505, 540-547), with `rep` what the segment has reported
\* and `refreshed` whether it has fired a refresh.
LoopFrom(p, files, i, rep, refreshed) ==
    LET w == Walk(files, i)
    IN  /\ fileIdx' = [fileIdx EXCEPT ![p] = w.next]
        /\ attempted' = [attempted EXCEPT ![p] = @ \o w.tried]
        /\ reported' = rep \cup {<<"failed", f>> : f \in w.failed}
        /\ IF w.next <= Len(files)
           THEN /\ pc' = [pc EXCEPT ![p] = "analyzeCode"]
                /\ scanning' = scanning
                /\ dirty' = (dirty \/ refreshed)
                /\ UNCHANGED allDependencies
           ELSE /\ pc' = [pc EXCEPT ![p] = "idle"]
                /\ scanning' = FALSE
                /\ dirty' = TRUE
                /\ allDependencies' = [allDependencies EXCEPT ![p] = <<>>]

\* lines 500-505: findSourceCodeFiles() returned the list
SourceFilesFound(p, files) ==
    /\ pc[p] = "findSourceCodeFiles"
    /\ codeFiles' = [codeFiles EXCEPT ![p] = files]
    /\ LoopFrom(p, files, 1, {}, FALSE)
    /\ call' = NoCall("startScan")
    /\ UNCHANGED <<findings, origin, treeItemCounter, issued, rootNodes, collection, stale>>

\* lines 505-547: analyzeCodeWithChatGPT returned `analysis` for the file
\* at fileIdx; the segment runs on through the loop
CodeAnalysisReturned(p, analysis) ==
    LET file == codeFiles[p][fileIdx[p]]
        rep == (IF InnerCatch(analysis) THEN {<<"invalidJson", file>>} ELSE {})
               \cup (IF RangeThrows(analysis) THEN {<<"failed", file>>} ELSE {})
    IN  /\ pc[p] = "analyzeCode"
        /\ findings' = addFindings(findings, BatchOf(analysis))
        /\ origin' = addOrigin(origin, findings, findings', <<p, "code">>)
        /\ collection' = [collection EXCEPT ![p][file] =
                             IF ~RangeThrows(analysis) /\ Len(analysis.issues) > 0
                             THEN DiagLines(analysis) ELSE @]
        /\ LoopFrom(p, codeFiles[p], fileIdx[p] + 1, rep, Refreshed(analysis))
        /\ call' = NoCall("startScan")
        /\ UNCHANGED <<treeItemCounter, issued, rootNodes, codeFiles, stale>>

\* lines 540-547: analyzeCodeWithChatGPT threw for the file at fileIdx
CodeAnalysisFailed(p, err) ==
    LET file == codeFiles[p][fileIdx[p]]
    IN  /\ pc[p] = "analyzeCode"
        /\ LoopFrom(p, codeFiles[p], fileIdx[p] + 1,
                    {<<"failed", file>>}, FALSE)
        /\ call' = NoCall("startScan")
        /\ UNCHANGED <<findings, origin, treeItemCounter, issued, rootNodes,
                       codeFiles, collection, stale>>

-----------------------------------------------------------------------------
(* SecurityScanWebviewProvider, lines 136-207, and the webview script *)

\* globalState.get(key) of a key that was never written
Absent == [tag |-> "absent"]

\* a value stored under a key of globalState
Stored(v) == [tag |-> "stored", value |-> v]

\* line 205: const state = { scanning, findings }
FullState(sc, fs) == [scanning |-> sc, findings |-> fs]

\* saveFullState(scanning, findings), lines 204-207, on the store gs
saveFullState(gs, sc, fs) == [gs EXCEPT !.data = Stored(FullState(sc, fs))]

\* the messages the provider posts to the webview
ScanningMsg(b) == [type |-> "scanning", scanning |-> b]
FindingsMsg(fs) == [type |-> "findings", findings |-> fs]
HydrateMsg(st) == [type |-> "hydrate", state |-> st]

\* the webview right after its html is set (lines 233-235): spinner hidden,
\* window._currentFindings undefined, which getUIState() reads as []
BlankWebview == [scanning |-> FALSE, findings |-> <<>>]

\* the webview's message listener, lines 311-328, on the shown state wv
Receive(wv, msg) ==
    IF msg.type = "scanning" THEN [wv EXCEPT !.scanning = msg.scanning]
    ELSE IF msg.type = "findings" THEN [wv EXCEPT !.findings = msg.findings]
    ELSE msg.state

\* webview.postMessage(msg) on the provider state P
Post(P, msg) == [P EXCEPT !.webview = Receive(@, msg), !.posted = @ \o <<msg>>]

\* the provider's fields, the store and the webview as one value
Provider == [view |-> view, latestFindings |-> latestFindings,
             globalState |-> globalState, webview |-> webview, posted |-> <<>>]

\* faulty variant: the snapshot is written without the findings held
WebviewSetScanningEmpty(P, b) ==
    IF P.view = "resolved"
    THEN LET Q == Post(P, ScanningMsg(b))
         IN  [Q EXCEPT !.globalState = saveFullState(@, b, <<>>)]
    ELSE P

\* private setScanning(scanning), lines 185-191
WebviewSetScanning(P, b) ==
    IF P.view = "resolved"
    THEN LET Q == Post(P, ScanningMsg(b))
         IN  [Q EXCEPT !.globalState = saveFullState(@, b, P.latestFindings)]
    ELSE P

\* private setFindings(findings), lines 193-202
WebviewSetFindings(P, fs) ==
    LET Q == [P EXCEPT !.latestFindings = fs,
                       !.globalState.securityScanFindings = Stored(fs)]
    IN  IF Q.view = "resolved"
        THEN LET R == Post(Q, FindingsMsg(fs))
             IN  [R EXCEPT !.globalState = saveFullState(@, FALSE, fs)]
        ELSE Q

\* lines 155-165: restore the findings from the field or from globalState
Restored(P) ==
    LET saved == P.globalState.securityScanFindings
    IN  IF Len(P.latestFindings) > 0
        THEN WebviewSetFindings(P, P.latestFindings)
        ELSE IF saved # Absent /\ Len(saved.value) > 0
             THEN WebviewSetFindings([P EXCEPT !.latestFindings = saved.value],
                                     saved.value)
             ELSE P

\* lines 166-170: hydrate the view from the combined snapshot
Hydrated(P) ==
    LET fullState == P.globalState.data
    IN  IF fullState # Absent THEN Post(P, HydrateMsg(fullState.value)) ELSE P

\* the provider's state is written back to the variables
Becomes(P) ==
    /\ view' = P.view
    /\ latestFindings' = P.latestFindings
    /\ globalState' = P.globalState
    /\ webview' = P.webview

\* resolveWebviewView, lines 143-183: the host creates the view (again).
\* The function is synchronous: the listener of line 173 is registered in
\* the same segment, after the restore and the hydrate.
ResolveWebviewView ==
    LET P == Hydrated(Restored([Provider EXCEPT !.view = "resolved",
                                                !.webview = BlankWebview]))
    IN  /\ Becomes(P)
        /\ replay' = [tag |-> "done", image |-> globalState, posted |-> P.posted]
        /\ UNCHANGED <<run, workspaceFolders>>

-----------------------------------------------------------------------------
(* runSecurityScan, lines 336-402, and the startScan message, lines 173-178 *)

\* vscode.workspace.workspaceFolders: undefined or empty, or a first root
NoFolders == [tag |-> "none"]
Folders(root) == [tag |-> "folders", root |-> root]

\* String.prototype.startsWith and substring(n)
startsWith(s, prefix) == Len(prefix) <= Len(s) /\ SubSeq(s, 1, Len(prefix)) = prefix
substring(s, n) == SubSeq(s, n + 1, Len(s))

\* the characters line 396 strips
Separators == {"\\", "/"}

\* lines 394-397 on the filename `name`, a non-empty string
NormalizeFilename(root, name) ==
    IF startsWith(name, root)
    THEN LET rel == substring(name, Len(root))
         IN  IF Len(rel) > 0 /\ rel[1] \in Separators THEN substring(rel, 1) ELSE rel
    ELSE name

\* lines 393-398 on one Finding record; `f.filename &&` skips a missing or
\* empty filename
NormalizeFinding(root, f) ==
    IF "filename" \in DOMAIN f /\ Len(f.filename) > 0
    THEN [f EXCEPT !.filename = NormalizeFilename(root, @)]
    ELSE f

\* lines 390-401: the array runSecurityScan returns
Normalized(folders, fs) ==
    IF folders = NoFolders THEN fs
    ELSE [i \in 1..Len(fs) |-> IF fs[i] = JNull THEN JNull
                               ELSE NormalizeFinding(folders.root, fs[i])]

\* line 394 reads f.filename of a null element: a TypeError rejects the call
NormalizeThrows(folders, fs) == folders # NoFolders /\ KeyThrows(fs)

\* no runSecurityScan call is in progress
RunIdle == [pc |-> "idle", findings |-> <<>>, allDependencies |-> <<>>,
            codeFiles |-> <<>>, fileIdx |-> 0]

PanelInit ==
    /\ view = "none"
    /\ latestFindings = <<>>
    /\ globalState = [securityScanFindings |-> Absent, data |-> Absent]
    /\ webview = BlankWebview
    /\ run = RunIdle
    /\ replay = [tag |-> "none"]

\* faulty variant: the listener is registered when the provider is constructed
AcceptingUnresolved == TRUE

\* the listener of line 173 exists once resolveWebviewView has run
Accepting == view = "resolved"

\* The Start Scan button is clicked (lines 303-309) and the provider handles
\* the message up to `await findDependencyFiles()` (lines 174-176, 338-340).
\* The button is disabled while the spinner shows.
StartScanMessage ==
    /\ Accepting
    /\ ~webview.scanning
    /\ run.pc \in {"idle", "rejected"}
    /\ Becomes(WebviewSetScanning([Provider EXCEPT !.webview.scanning = TRUE], TRUE))
    /\ run' = [RunIdle EXCEPT !.pc = "findDependencyFiles"]
    /\ UNCHANGED <<workspaceFolders, replay>>

\* lines 389-401 and 177-178: the call returns fs, or rejects in line 394
RunEnd(fs) ==
    IF NormalizeThrows(workspaceFolders, fs)
    THEN /\ run' = [RunIdle EXCEPT !.pc = "rejected"]
         /\ UNCHANGED <<view, latestFindings, globalState, webview>>
    ELSE /\ run' = RunIdle
         /\ Becomes(WebviewSetFindings(WebviewSetScanning(Provider, FALSE),
                                       Normalized(workspaceFolders, fs)))

\* lines 340-353: findDependencyFiles() returned; the manifests are parsed
\* outside any try block
RunDepFilesFound(depFiles) ==
    /\ run.pc = "findDependencyFiles"
    /\ run' = IF \E i \in 1..Len(depFiles) : ParseThrows(depFiles[i])
              THEN [RunIdle EXCEPT !.pc = "rejected"]
              ELSE [run EXCEPT !.allDependencies = Concat(depFiles),
                               !.pc = IF Len(Concat(depFiles)) > 0
                                      THEN "analyzeDependencies"
                                      ELSE "findSourceCodeFiles"]
    /\ UNCHANGED <<view, latestFindings, globalState, webview, workspaceFolders, replay>>

\* lines 353-370: the dependency analyzer returned; push without filter
RunDepAnalysisReturned(depAnalysis) ==
    /\ run.pc = "analyzeDependencies"
    /\ run' = [run EXCEPT !.findings = Pushed(@, BatchOf(depAnalysis)),
                          !.pc = "findSourceCodeFiles"]
    /\ UNCHANGED <<view, latestFindings, globalState, webview, workspaceFolders, replay>>

\* lines 364-370: the dependency analyzer threw
RunDepAnalysisFailed(err) ==
    /\ run.pc = "analyzeDependencies"
    /\ run' = [run EXCEPT !.pc = "findSourceCodeFiles"]
    /\ UNCHANGED <<view, latestFindings, globalState, webview, workspaceFolders, replay>>

\* the for..of loop of lines 371-388 from position i, holding the array fs,
\* up to its next await or to the end of the message handler
RunLoopFrom(fs, files, i) ==
    LET w == Walk(files, i)
    IN  IF w.next <= Len(files)
        THEN /\ run' = [run EXCEPT !.pc = "analyzeCode", !.findings = fs,
                                   !.codeFiles = files, !.fileIdx = w.next]
             /\ UNCHANGED <<view, latestFindings, globalState, webview>>
        ELSE RunEnd(fs)

\* lines 370-374: findSourceCodeFiles() returned the list
RunSourceFilesFound(files) ==
    /\ run.pc = "findSourceCodeFiles"
    /\ RunLoopFrom(run.findings, files, 1)
    /\ UNCHANGED <<workspaceFolders, replay>>

\* lines 374-388: the code analyzer returned for the file at fileIdx
RunCodeAnalysisReturned(analysis) ==
    /\ run.pc = "analyzeCode"
    /\ RunLoopFrom(Pushed(run.findings, BatchOf(analysis)), run.codeFiles,
                   run.fileIdx + 1)
    /\ UNCHANGED <<workspaceFolders, replay>>

\* lines 385-388: the code analyzer threw for the file at fileIdx
RunCodeAnalysisFailed(err) ==
    /\ run.pc = "analyzeCode"
    /\ RunLoopFrom(run.findings, run.codeFiles, run.fileIdx + 1)
    /\ UNCHANGED <<workspaceFolders, replay>>

-----------------------------------------------------------------------------
(* The extension.revealFinding command handler, lines 424-445 *)

\* require('path').isAbsolute on a POSIX path
isAbsolute(name) == Len(name) > 0 /\ name[1] = "/"

RECURSIVE CollapseSlashes(_)
\* path.normalize on a path without "." and ".." segments: runs of "/"
\* become one "/"
CollapseSlashes(s) ==
    IF Len(s) < 2 THEN s
    ELSE IF s[1] = "/" /\ s[2] = "/" THEN CollapseSlashes(Tail(s))
    ELSE <<s[1]>> \o CollapseSlashes(Tail(s))

\* path.join(a, b): empty segments are left out, the result is normalized
pathJoin(a, b) == CollapseSlashes(IF Len(b) = 0 THEN a ELSE a \o <<"/">> \o b)

\* lines 426-433: the path `absPath` that is opened for `filename`
RevealPath(folders, filename) ==
    IF ~isAbsolute(filename) /\ folders # NoFolders
    THEN pathJoin(folders.root, filename)
    ELSE filename

-----------------------------------------------------------------------------
(* Specifications *)

\* the first workspace root of the scans
WorkspaceRoot == <<"/", "w">>

Init ==
    /\ TreeInit
    /\ ScanInit
    /\ PanelInit
    /\ workspaceFolders = Folders(WorkspaceRoot)

\* the texts the analyzer answers with in Spec: no Type/Description/Line
\* matches, so the diagnostics stay empty there
JsonResponses == {NotJson, FencedText(<<FB>>), NullText, NoFindingsText,
                  NonArrayText, FindingsText(<<>>), FindingsText(<<JNull>>),
                  FindingsText(<<FA2>>), FindingsText(<<FB>>)}

\* command invocations interleaving at their awaits
NextScan(procs, depTexts, codeTexts) ==
    \/ \E p \in procs : StartScan(p)
    \/ \E p \in procs : \E ms \in Lists(Manifests, MaxManifests) :
           DepFilesFound(p, ms)
    \/ \E p \in procs : \E t \in depTexts : DepAnalysisReturned(p, t)
    \/ \E p \in procs : \E e \in Failures : DepAnalysisFailed(p, e)
    \/ \E p \in procs : \E fl \in FileLists : SourceFilesFound(p, fl)
    \/ \E p \in procs : \E t \in codeTexts : CodeAnalysisReturned(p, t)
    \/ \E p \in procs : \E e \in Failures : CodeAnalysisFailed(p, e)

Next ==
    /\ NextScan(Invocations, DepResponses, JsonResponses)
    /\ UNCHANGED <<panelVars, workspaceFolders>>

Spec == Init /\ [][Next]_vars

\* the Finding Store driven directly, no scan running
NextStore ==
    \/ \E b \in Batches : AddFindings(b)
    \/ ClearFindings

SpecStore ==
    Init /\ [][NextStore /\ UNCHANGED <<scanVars, panelVars, workspaceFolders>>]_vars

\* the store and the tree view: the host renders the root level at will
NextTree ==
    \/ \E f \in FindingInputs \cup {FB} : AddFindings(<<f>>)
    \/ ClearFindings
    \/ \E b \in BOOLEAN : SetScanning(b)
    \/ GetChildren

SpecTree ==
    Init /\ [][NextTree /\ UNCHANGED <<scanVars, panelVars, workspaceFolders>>]_vars

\* a Finding whose filename lies under the workspace root
FP == [vulnerability |-> <<"x">>, risk_score |-> "high",
       filename |-> WorkspaceRoot \o <<"/", "a">>, lines_affected |-> <<10>>]

\* what the collaborators answer with in SpecPanel
PanelManifestLists == {<<>>, <<"req">>, <<"pkgBad">>}
PanelFileLists == {<<>>, <<"f1">>, <<"u", "f1">>}
TreeResponses == {NotJson, FindingsText(<<FA>>), FindingsText(<<FP>>)}
PanelResponses == {NotJson, FindingsText(<<FP>>), FindingsText(<<JNull>>)}

\* the extension host restarts: every object is constructed anew (lines
\* 13-15, 138-139, 405-409); globalState and the workspace stay
Restart ==
    /\ scanning' = FALSE
    /\ findings' = <<>>
    /\ treeItemCounter' = 0
    /\ issued' = {}
    /\ dirty' = FALSE
    /\ origin' = <<>>
    /\ call' = NoCall("none")
    /\ rootNodes' = <<>>
    /\ pc' = [p \in Invocations |-> "idle"]
    /\ allDependencies' = [p \in Invocations |-> <<>>]
    /\ codeFiles' = [p \in Invocations |-> <<>>]
    /\ fileIdx' = [p \in Invocations |-> 0]
    /\ collection' = [p \in Invocations |-> NoDiagnostics]
    /\ stale' = [f \in Files |-> {}]
    /\ attempted' = [p \in Invocations |-> <<>>]
    /\ reported' = {}
    /\ view' = "none"
    /\ latestFindings' = <<>>
    /\ webview' = BlankWebview
    /\ run' = RunIdle
    /\ replay' = [tag |-> "none"]
    /\ UNCHANGED <<globalState, workspaceFolders>>

\* the panel's startScan message and its runSecurityScan call
NextRun ==
    \/ StartScanMessage
    \/ \E ms \in PanelManifestLists : RunDepFilesFound(ms)
    \/ \E t \in PanelResponses : RunDepAnalysisReturned(t)
    \/ \E e \in Failures : RunDepAnalysisFailed(e)
    \/ \E fl \in PanelFileLists : RunSourceFilesFound(fl)
    \/ \E t \in PanelResponses : RunCodeAnalysisReturned(t)
    \/ \E e \in Failures : RunCodeAnalysisFailed(e)

\* the extension.startScan command, one invocation at a time
NextCommand ==
    \/ StartScan("s1")
    \/ \E ms \in PanelManifestLists : DepFilesFound("s1", ms)
    \/ \E t \in TreeResponses : DepAnalysisReturned("s1", t)
    \/ \E e \in Failures : DepAnalysisFailed("s1", e)
    \/ \E fl \in PanelFileLists : SourceFilesFound("s1", fl)
    \/ \E t \in TreeResponses : CodeAnalysisReturned("s1", t)
    \/ \E e \in Failures : CodeAnalysisFailed("s1", e)

\* both surfaces: the command from the tree, the panel and its view,
\* restarts of the extension host
NextPanel ==
    \/ /\ NextCommand
       /\ UNCHANGED <<panelVars, workspaceFolders>>
    \/ /\ ResolveWebviewView
       /\ UNCHANGED <<treeVars, scanVars>>
    \/ /\ NextRun
       /\ UNCHANGED <<treeVars, scanVars>>
    \/ Restart

SpecPanel == Init /\ [][NextPanel]_vars

\* SpecPanel where the panel's scan goes on whenever it can: an awaited
\* call settles, and an enabled Start Scan button is clicked in the end
SpecPanelLive ==
    SpecPanel /\ WF_vars(NextRun /\ UNCHANGED <<treeVars, scanVars>>)

\* the filenames an analyzer response can carry into the normalization
PathChars == {"/", "\\", "w", "a"}
Paths == UNION {[1..n -> PathChars] : n \in 0..MaxPath}

\* a record without filename
FN == [vulnerability |-> <<"y">>, risk_score |-> "low", lines_affected |-> <<>>]

\* the arrays runSecurityScan holds when it reaches line 389
NormInputs == {<<[FA EXCEPT !.filename = n]>> : n \in Paths} \cup {<<FN>>, <<FN, FP>>}

\* runSecurityScan is past its dependency phase, holds the array fs and
\* waits for findSourceCodeFiles() in a workspace with or without a folder
InitNormalize ==
    /\ TreeInit
    /\ ScanInit
    /\ view = "resolved"
    /\ latestFindings = <<>>
    /\ globalState = [securityScanFindings |-> Absent,
                      data |-> Stored(FullState(TRUE, <<>>))]
    /\ webview = [scanning |-> TRUE, findings |-> <<>>]
    /\ replay = [tag |-> "done",
                 image |-> [securityScanFindings |-> Absent, data |-> Absent],
                 posted |-> <<>>]
    /\ run \in {[RunIdle EXCEPT !.pc = "findSourceCodeFiles", !.findings = fs] :
                   fs \in NormInputs}
    /\ workspaceFolders \in {NoFolders, Folders(WorkspaceRoot)}

\* no source file is found: the call goes straight to lines 389-401
NextNormalize ==
    /\ RunSourceFilesFound(<<>>)
    /\ UNCHANGED <<treeVars, scanVars>>

SpecNormalize == InitNormalize /\ [][NextNormalize]_vars

\* successive scans of a workspace without manifests, with responses that
\* carry Type/Description/Line matches
NextDiag ==
    \/ StartScan("s1")
    \/ DepFilesFound("s1", <<>>)
    \/ \E fl \in FileLists : SourceFilesFound("s1", fl)
    \/ \E t \in CodeResponses : CodeAnalysisReturned("s1", t)
    \/ \E e \in Failures : CodeAnalysisFailed("s1", e)

SpecDiag ==
    Init /\ [][NextDiag /\ UNCHANGED <<panelVars, workspaceFolders>>]_vars

\* the names a Finding can carry into key(): filenames and vulnerability
\* names with and without the character "|"
NameChars == {"a", "|"}
Names == UNION {[1..n -> NameChars] : n \in 1..MaxName}

\* Findings over these names: lines_affected a number, empty, or missing
KeyInputs ==
    {[vulnerability |-> v, risk_score |-> "low", filename |-> n, lines_affected |-> l] :
        v \in Names, n \in Names, l \in {<<>>, <<1>>}}
    \cup {[vulnerability |-> v, risk_score |-> "low", filename |-> n] :
             v \in Names, n \in Names}

\* addFindings([f]) on the empty store has just returned
InitKey ==
    /\ \E f \in KeyInputs :
          /\ findings = <<f>>
          /\ call = AddCall(<<>>, <<f>>, <<f>>)
    /\ origin = <<<<"caller", "none">>>>
    /\ scanning = FALSE
    /\ treeItemCounter = 0
    /\ issued = {}
    /\ dirty = TRUE
    /\ rootNodes = <<>>
    /\ ScanInit
    /\ PanelInit
    /\ workspaceFolders = Folders(WorkspaceRoot)

\* a second addFindings([g]) on the store of one Finding
NextKey ==
    /\ call.arg = findings
    /\ \E g \in KeyInputs : AddFindings(<<g>>)
    /\ UNCHANGED <<scanVars, panelVars, workspaceFolders>>

SpecKey == InitKey /\ [][NextKey]_vars

-----------------------------------------------------------------------------
(* Properties *)

\* an invocation of the handler is between its start and its end
Running(p) == pc[p] \notin {"idle", "rejected"}

\* how many elements of the sequence fs have the key k
CountKey(fs, k) == Cardinality({i \in 1..Len(fs) : key(fs[i]) = k})

\* the batch consists of records (no null element)
AllRecords(b) == \A i \in 1..Len(b) : b[i] # JNull

IsPrefix(s, t) == Len(s) <= Len(t) /\ \A i \in 1..Len(s) : s[i] = t[i]

\* C1: Single-flight. Invoking Start Scan while a scan is in progress is a
\* no-op, so at most one scan workflow is executing at any time.
C1_SingleFlight == Cardinality({p \in Invocations : Running(p)}) <= 1

\* C2: Cross-batch deduplication. No Finding appended by an addFindings
\* call has the key of a Finding stored before the call, and the number of
\* stored entries with an already stored key does not change.
C2_CrossBatchDedup ==
    [][call'.op = "addFindings" =>
          /\ \A i \in (Len(findings) + 1)..Len(findings') :
                 \A j \in 1..Len(findings) : key(findings'[i]) # key(findings[j])
          /\ \A j \in 1..Len(findings) :
                 CountKey(findings', key(findings[j])) = CountKey(findings, key(findings[j]))
      ]_vars

\* C2 witness: a later call submitted a Finding whose key was stored, it was
\* dropped, and the store holds exactly one entry with that key.
C2_Witness ==
    /\ call.op = "addFindings" /\ call.dropped = 1 /\ call.appended = 0
    /\ Len(findings) = 1

\* C3: addFindings(B) on a store S leaves S followed by the elements of B,
\* in batch order, whose keys do not occur among the keys of S; S itself is
\* neither removed, reordered nor modified; a change notification is fired.
C3_AppendsSurvivorsInOrder ==
    [][(call'.op = "addFindings" /\ AllRecords(call'.arg)) =>
          /\ findings' = findings \o
                 SelectSeq(call'.arg, LAMBDA f :
                     \A j \in 1..Len(findings) : key(f) # key(findings[j]))
          /\ dirty' = TRUE
      ]_vars

\* C3 witness: a call on a non-empty store appended one element of its batch
\* and dropped another.
C3_Witness ==
    /\ call.op = "addFindings" /\ call.appended >= 1 /\ call.dropped >= 1
    /\ Len(findings) > call.appended

\* C4: Intra-batch duplicates are kept. For every key of the batch: if the
\* key is not stored, all Findings of the batch with that key are appended;
\* if it is stored, none is.
C4_IntraBatchDuplicatesKept ==
    [][(call'.op = "addFindings" /\ AllRecords(call'.arg)) =>
          \A i \in 1..Len(call'.arg) :
              LET k == key(call'.arg[i])
              IN  CountKey(findings', k) =
                      IF \E j \in 1..Len(findings) : key(findings[j]) = k
                      THEN CountKey(findings, k)
                      ELSE CountKey(call'.arg, k)
      ]_vars

\* C4 witness: one call appended two Findings with the same key.
C4_Witness ==
    /\ call.op = "addFindings" /\ call.appended = 2
    /\ Len(findings) = 2 /\ key(findings[1]) = key(findings[2])

\* C5: During a scan the findings sequence only grows: while an invocation
\* is between its start and its end, every step leaves the earlier findings
\* sequence a prefix of the later one, whatever else is interleaved.
C5_FindingsOnlyGrow ==
    [][\A p \in Invocations :
          (Running(p) /\ Running(p)') => IsPrefix(findings, findings')
      ]_vars

\* C6: Phase ordering. Once an invocation has tried to read a source file
\* or stored a code Finding, its dependency phase is over, and in the store
\* no code Finding of a scan precedes a dependency Finding of that scan.
C6_PhaseOrdering ==
    \A p \in Invocations :
        /\ (attempted[p] # <<>> \/ \E i \in 1..Len(origin) : origin[i] = <<p, "code">>)
               => pc[p] \in {"analyzeCode", "idle"}
        /\ \A i, j \in 1..Len(origin) :
               (origin[i] = <<p, "code">> /\ origin[j] = <<p, "dep">>) => j < i

\* C6 witness: the store holds a dependency Finding and a code Finding of
\* the same scan.
C6_Witness ==
    \E p \in Invocations : \E i, j \in 1..Len(origin) :
        origin[i] = <<p, "dep">> /\ origin[j] = <<p, "code">>

\* the positions 1..n
UpTo(n) == [i \in 1..n |-> i]

\* the files of the list are attempted once each, in order, up to the
\* position of the loop; a finished scan has attempted them all
C7_AttemptedInOrder(p) ==
    /\ pc[p] = "analyzeCode" =>
           /\ fileIdx[p] \in 1..Len(codeFiles[p])
           /\ attempted[p] = UpTo(fileIdx[p])
    /\ pc[p] = "idle" => attempted[p] = UpTo(Len(codeFiles[p]))

\* one step of the loop of invocation p, for the file it was waiting on
C7_FileStep(p) ==
    LET file == codeFiles[p][fileIdx[p]]
    IN  /\ fileIdx'[p] > fileIdx[p]
        /\ IsPrefix(findings, findings')
        \* what is reported concerns this file, or a later one that cannot be read
        /\ \A r \in reported' :
               \/ r[2] = file
               \/ \E k \in (fileIdx[p] + 1)..(fileIdx'[p] - 1) :
                      r = <<"failed", codeFiles[p][k]>> /\ ~Readable(codeFiles[p][k])
        /\ \A k \in (fileIdx[p] + 1)..(fileIdx'[p] - 1) :
               <<"failed", codeFiles[p][k]>> \in reported'
        /\ (\E e \in Failures : CodeAnalysisFailed(p, e)) =>
               (findings' = findings /\ <<"failed", file>> \in reported')
        /\ <<"invalidJson", file>> \in reported' => findings' = findings

\* C7: Per-file failure isolation. A read error, an analyzer error or a
\* malformed response is reported for its file only, leaves the stored
\* Findings unchanged, and the loop goes on: every file of the collector's
\* list is attempted exactly once, in order.
C7_PerFileIsolation ==
    [][\A p \in Invocations :
          /\ (pc[p] = "analyzeCode" /\ pc'[p] # "findDependencyFiles" /\ <<pc[p], fileIdx[p]>> # <<pc'[p], fileIdx'[p]>>)
                 => C7_FileStep(p)
          /\ C7_AttemptedInOrder(p)'
      ]_vars

\* C7 witness: a scan has ended whose second file failed while a Finding of
\* its first file is stored.
C7_Witness ==
    \E p \in Invocations :
        /\ pc[p] = "idle" /\ Len(codeFiles[p]) = 2
        /\ reported = {<<"failed", codeFiles[p][2]>>}
        /\ \E i \in 1..Len(origin) : origin[i] = <<p, "code">>

\* C8: A failure of the dependency-analyzer call is reported, adds no
\* Findings and does not prevent phase 2: when the call settles, the handler
\* goes on to collect the source files.
C8_DependencyFailureContinues ==
    [][\A p \in Invocations :
          (pc[p] = "analyzeDependencies" /\ pc'[p] # "analyzeDependencies") =>
              /\ pc'[p] = "findSourceCodeFiles"
              /\ (\E e \in Failures : DepAnalysisFailed(p, e)) =>
                     (<<"failed", "deps">> \in reported' /\ findings' = findings)
      ]_vars

\* C8 witness: the dependency call failed, the failure is reported and the
\* handler waits for the list of source files.
C8_Witness ==
    /\ reported = {<<"failed", "deps">>}
    /\ \E p \in Invocations : pc[p] = "findSourceCodeFiles" /\ allDependencies[p] # <<>>

\* C9: Every started scan ends. No failure leaves the scanning flag true
\* with no scan left to reset it.
C9_NoStuckScanning == (\A p \in Invocations : ~Running(p)) => ~scanning

\* the text is not valid JSON, or its findings member is missing or not an array
Malformed(t) ==
    \/ ~t.valid
    \/ t.value.tag # "object"
    \/ "findings" \notin DOMAIN t.value.members
    \/ t.value.members.findings.tag # "array"

\* C10: Parser robustness. A response that is not valid JSON, or whose
\* findings member is missing or not an array, produces no Findings, leaves
\* the store unchanged and lets the scan go on with the next unit of work.
C10_ParserRobustness ==
    [][\A p \in Invocations :
          /\ pc[p] = "analyzeCode" =>
                 \A t \in JsonResponses : (Malformed(t) /\ CodeAnalysisReturned(p, t)) =>
                     /\ findings' = findings
                     /\ fileIdx'[p] > fileIdx[p]
                     /\ pc'[p] \in {"analyzeCode", "idle"}
          /\ pc[p] = "analyzeDependencies" =>
                 \A t \in DepResponses : (Malformed(t) /\ DepAnalysisReturned(p, t)) =>
                     /\ findings' = findings
                     /\ pc'[p] = "findSourceCodeFiles"
      ]_vars

\* C10 witness: the first file's response was not valid JSON, the store
\* still holds a Finding and the handler waits on the second file.
C10_Witness ==
    \E p \in Invocations :
        /\ pc[p] = "analyzeCode" /\ fileIdx[p] = 2
        /\ reported = {<<"invalidJson", codeFiles[p][1]>>}
        /\ Len(findings) >= 1

\* the filename is an absolute path nested under the root: the root, a path
\* separator, and at least one more character
NestedUnder(root, name) ==
    startsWith(name, root \o <<"/">>) /\ Len(name) > Len(root) + 1

\* the path of name relative to the root it is nested under
RootRelative(root, name) == SubSeq(name, Len(root) + 2, Len(name))

\* C11: Path normalization. A filename nested under the first workspace
\* root becomes the root-relative path; a filename that is not nested under
\* it, also one that merely begins with the root string, is left unchanged;
\* all other fields are unchanged.
C11_PathNormalization ==
    [][(run.pc = "findSourceCodeFiles" /\ run'.pc = "idle") =>
          /\ Len(latestFindings') = Len(run.findings)
          /\ \A i \in 1..Len(run.findings) :
                 LET f == run.findings[i]
                     g == latestFindings'[i]
                 IN  /\ DOMAIN g = DOMAIN f
                     /\ \A k \in DOMAIN f \ {"filename"} : g[k] = f[k]
                     /\ "filename" \in DOMAIN f =>
                            g.filename =
                                IF /\ workspaceFolders # NoFolders
                                   /\ NestedUnder(workspaceFolders.root, f.filename)
                                THEN RootRelative(workspaceFolders.root, f.filename)
                                ELSE f.filename
      ]_vars

\* the panel's runSecurityScan call is between its start and its return
RunRunning == run.pc \notin {"idle", "rejected"}

\* this step is the last segment of a command scan
CommandScanEnds ==
    \E p \in Invocations : Running(p) /\ pc'[p] = "idle" /\ call'.op = "startScan"

\* this step is the last segment of a panel scan
PanelScanEnds == RunRunning /\ run'.pc = "idle" /\ view' = "resolved"

\* this step is the first segment of a command scan, or of a panel scan
CommandScanStarts ==
    \E p \in Invocations : ~Running(p) /\ pc'[p] = "findDependencyFiles"
PanelScanStarts == ~RunRunning /\ run'.pc = "findDependencyFiles"

\* C12: Dual-surface consistency. When a scan has completed, however it was
\* initiated, and no other scan is running, the findings of the tree (the
\* Finding Store) and the findings held by the panel are the same sequence.
C12_DualSurfaceConsistency ==
    [][((CommandScanEnds \/ PanelScanEnds)
           /\ (\A p \in Invocations : ~Running(p)') /\ ~RunRunning')
          => findings' = latestFindings'
      ]_vars

\* C13: Persistence follows every mutation. Every step of a scan that
\* changes the scanning flag or the findings of the store leaves the
\* combined snapshot in durable storage equal to {scanning, findings}.
C13_PersistenceFollowsMutation ==
    [][(call'.op = "startScan" /\ <<scanning, findings>>' # <<scanning, findings>>)
          => globalState'.data = Stored(FullState(scanning', findings'))
      ]_vars

\* the findings read from the findings-only key; a key never written
\* holds no findings
SavedFindings(gs) ==
    IF gs.securityScanFindings = Absent THEN <<>> ELSE gs.securityScanFindings.value

\* C14: Durable-key consistency. After every write of the panel (setScanning
\* or setFindings) the findings under securityScanFindings are the findings
\* member of the snapshot under securityAnalyzer:data; without a snapshot
\* the findings-only key was not written either.
C14_DurableKeysConsistent ==
    [][globalState' # globalState =>
          /\ globalState'.data # Absent
          /\ globalState'.data.value.findings = SavedFindings(globalState')
      ]_vars

\* C14 witness: setScanning(true) wrote the snapshot while findings of an
\* earlier scan are stored under both keys.
C14_Witness ==
    /\ globalState.data # Absent
    /\ globalState.data.value.scanning
    /\ Len(globalState.data.value.findings) > 0
    /\ globalState.securityScanFindings = Stored(globalState.data.value.findings)

\* C15: Idempotent rehydration. When the panel is initialized after a
\* restart with a snapshot S in durable storage, the view shows S and the
\* snapshot in durable storage is still S.
C15_IdempotentRehydration ==
    [][(view = "none" /\ view' = "resolved" /\ globalState.data # Absent) =>
          /\ webview' = globalState.data.value
          /\ globalState'.data = globalState.data
      ]_vars

\* C16: No panel scan begins before the replay. When the startScan message
\* is accepted, resolveWebviewView has read the durable image and has posted
\* to the view what it found: the stored findings and the stored snapshot.
C16_ReplayBeforeScan ==
    [][PanelScanStarts =>
          /\ replay.tag = "done"
          /\ replay.image.data # Absent =>
                 \E i \in 1..Len(replay.posted) : replay.posted[i].type = "hydrate"
          /\ Len(SavedFindings(replay.image)) > 0 =>
                 \E i \in 1..Len(replay.posted) :
                     replay.posted[i] = FindingsMsg(SavedFindings(replay.image))
      ]_vars

\* C16 witness: a panel scan has begun after a restart; the view had been
\* sent the stored findings and the stored snapshot.
C16_Witness ==
    /\ run.pc = "findDependencyFiles"
    /\ replay.tag = "done"
    /\ replay.image.data # Absent
    /\ Len(replay.posted) = 2
    /\ replay.posted[1].type = "findings"
    /\ replay.posted[2].type = "hydrate"

\* C17: Scan start reset. The first segment of every scan leaves scanning
\* true and the findings empty on every surface: the tree, the panel's
\* mirror and view, and the snapshot in durable storage.
C17_ScanStartReset ==
    [][(CommandScanStarts \/ PanelScanStarts) =>
          /\ scanning' /\ findings' = <<>>
          /\ latestFindings' = <<>>
          /\ webview' = FullState(TRUE, <<>>)
          /\ globalState'.data = Stored(FullState(TRUE, <<>>))
      ]_vars

\* the diagnostics the editor shows for a file: those of every collection
\* that exists, the ones of earlier scans included
PublishedIn(st, col, f) == st[f] \cup UNION {Elems(col[p][f]) : p \in Invocations}

\* C18: Diagnostics are cleared at scan start. While a scan is running, no
\* diagnostic published by an earlier scan is still published for any file.
C18_DiagnosticsClearedAtStart ==
    \A p \in Invocations : Running(p) => \A f \in Files : stale[f] = {}

\* C19: After the step of a file, the diagnostics published for it are
\* exactly those extracted from this scan's response for it; a response
\* {"findings":[]} leaves the store as it was and the file without
\* published diagnostics, whatever an earlier scan published for it.
C19_FileDiagnosticsReplaced ==
    [][\A p \in Invocations : pc[p] = "analyzeCode" =>
          \A t \in CodeResponses : (~RangeThrows(t) /\ CodeAnalysisReturned(p, t)) =>
              /\ PublishedIn(stale', collection', codeFiles[p][fileIdx[p]])
                     = Elems(DiagLines(t))
              /\ t = FindingsText(<<>>) => findings' = findings
      ]_vars

\* C20: Strictly sequential analysis. At most one remote-analyzer call is
\* outstanding at any moment, over all scans in progress.
C20_OneAnalyzerCallOutstanding ==
    Cardinality({p \in Invocations : pc[p] \in {"analyzeDependencies", "analyzeCode"}})
        + (IF run.pc \in {"analyzeDependencies", "analyzeCode"} THEN 1 ELSE 0) <= 1

\* a step that is a root-level getChildren()
Renders == call'.op = "getChildren"

\* C21: While the scanning flag is true, a root-level getChildren() returns
\* exactly one node, the "scanning in progress" placeholder: no Start Scan
\* node and no Finding node, whatever the store holds.
C21_ScanningPlaceholderOnly ==
    [][(Renders /\ scanning) =>
          /\ Len(rootNodes') = 1
          /\ rootNodes'[1].kind = "scanning"
          /\ \A i \in 1..Len(rootNodes') : rootNodes'[i].kind \notin {"startScan", "finding"}
      ]_vars

C21_Witness ==
    /\ scanning /\ Len(findings) = 2
    /\ call.op = "getChildren"
    /\ rootNodes = <<[kind |-> "scanning"]>>

\* the icon the claim of the root level gives a risk tier
TierIcon(f) == CASE f.risk_score = "high" -> "error"
                 [] f.risk_score = "medium" -> "warning"
                 [] OTHER -> "info"

\* C22: When the scanning flag is false, a root-level getChildren() returns
\* the Start Scan node followed by one node per stored Finding in store
\* order, labelled `vulnerability (risk_score)`, with icon error for high,
\* warning for medium and info otherwise: 1 + Len(findings) nodes.
C22_RootLevelListsStore ==
    [][(Renders /\ ~scanning) =>
          /\ Len(rootNodes') = 1 + Len(findings)
          /\ rootNodes'[1].kind = "startScan"
          /\ \A i \in 1..Len(findings) :
                /\ rootNodes'[i + 1].kind = "finding"
                /\ rootNodes'[i + 1].vulnerabilityData = findings[i]
                /\ rootNodes'[i + 1].label
                       = findings[i].vulnerability \o <<" ", "(">>
                             \o RiskText(findings[i]) \o <<")">>
                /\ rootNodes'[i + 1].icon = TierIcon(findings[i])
      ]_vars

C22_Witness ==
    /\ ~scanning /\ call.op = "getChildren"
    /\ Len(findings) = 2 /\ Len(rootNodes) = 3
    /\ rootNodes[2].vulnerabilityData = findings[1]
    /\ {rootNodes[2].icon, rootNodes[3].icon} \in {{"warning", "error"}, {"warning", "info"}}


\* the ids of the Finding nodes of a root level
NodeIds(nodes) == {nodes[i].id : i \in {j \in 1..Len(nodes) : nodes[j].kind = "finding"}}

\* the number of Finding nodes of a root level
NodeCount(nodes) == Cardinality({j \in 1..Len(nodes) : nodes[j].kind = "finding"})

\* C27: The ids come from a counter that only grows between two clears and
\* that clearFindings() sets to 0.  With no clear in between, no two Finding
\* nodes ever produced get the same id, over any sequence of addFindings()
\* and root-level getChildren(); the first Finding node produced after a
\* clear has id 0.
C27_IdsUniqueBetweenClears ==
    [][/\ call'.op = "clearFindings" => treeItemCounter' = 0
       /\ call'.op # "clearFindings" => treeItemCounter' >= treeItemCounter
       /\ Renders =>
             /\ NodeIds(rootNodes') \cap issued = {}
             /\ Cardinality(NodeIds(rootNodes')) = NodeCount(rootNodes')
             /\ (issued = {} /\ NodeCount(rootNodes') > 0) => rootNodes'[2].id = 0
      ]_vars

\* a second render with Finding nodes after an addFindings(), no clear between
C27_Witness ==
    /\ call.op = "getChildren" /\ ~scanning
    /\ Len(findings) = 2 /\ treeItemCounter = 3
    /\ NodeIds(rootNodes) = {1, 2}
    /\ issued = {0, 1, 2}

\* C28: Node identity is stable across re-renders.  Two root-level
\* getChildren() in a row, the store unchanged between them, give every
\* stored Finding the same node id both times.
C28_IdsStableAcrossRenders ==
    [][(/\ Renders /\ ~scanning
        /\ call.op = "getChildren"
        /\ Len(rootNodes) = 1 + Len(findings) /\ rootNodes[1].kind = "startScan") =>
          \A i \in 1..Len(findings) : rootNodes'[i + 1].id = rootNodes[i + 1].id
      ]_vars


\* C23: Every Finding a scan appends to the store has been normalized
\* first.  After any scan of the extension.startScan command, no stored
\* Finding has a filename that is an absolute path nested under the first
\* workspace root.
C23_StoredFindingsNormalized ==
    (\A p \in Invocations : ~Running(p)) =>
        \A i \in 1..Len(findings) :
            "filename" \in DOMAIN findings[i] =>
                ~NestedUnder(workspaceFolders.root, findings[i].filename)

\* C24: For every filename nested under the first workspace root, the
\* normalized filename does not begin with a path separator, whatever
\* number of separators follows the root prefix.
C24_NoLeadingSeparator ==
    [][(run.pc = "findSourceCodeFiles" /\ run'.pc = "idle" /\ workspaceFolders # NoFolders) =>
          \A i \in 1..Len(run.findings) :
              ("filename" \in DOMAIN run.findings[i]
                  /\ NestedUnder(workspaceFolders.root, run.findings[i].filename)) =>
                  \/ latestFindings'[i].filename = <<>>
                  \/ latestFindings'[i].filename[1] \notin Separators
      ]_vars


\* the specifiers of the manifests ms[1..n], manifest after manifest
SpecifiersUpTo(ms, n) ==
    LET acc[i \in 0..n] == IF i = 0 THEN <<>> ELSE acc[i - 1] \o Specifiers(ms[i])
    IN  acc[n]

\* how many stored Findings the dependency phase of invocation p appended
DepFindings(org, p) == Cardinality({i \in 1..Len(org) : org[i] = <<p, "dep">>})

C26_ScanEndKeepsFindings ==
    [][/\ \A p \in Invocations :
              (Running(p) /\ pc'[p] = "idle") =>
                  /\ ~scanning'
                  /\ IF pc[p] = "analyzeCode" THEN IsPrefix(findings, findings')
                     ELSE findings' = findings
       /\ (~scanning /\ ~CommandScanStarts) => findings' = findings
      ]_vars


\* C29: Every Type/Description/Line match with number n >= 0 in a file's
\* response gives one diagnostic at the 0-based line n - 1, a valid
\* non-negative line; a response with `Line: 0` yields no negative line,
\* loses none of the file's diagnostics and does not report the file failed.
C29_DiagnosticPerMatch ==
    [][\A p \in Invocations : pc[p] = "analyzeCode" =>
          \A t \in CodeResponses : CodeAnalysisReturned(p, t) =>
              LET file == codeFiles[p][fileIdx[p]]
                  diagnostics == collection'[p][file]
              IN  /\ Len(t.issues) > 0 =>
                        /\ Len(diagnostics) = Len(t.issues)
                        /\ \A i \in 1..Len(t.issues) :
                              diagnostics[i] = t.issues[i] - 1 /\ diagnostics[i] >= 0
                  /\ <<"failed", file>> \notin reported'
      ]_vars


\* the (filename, lines_affected, vulnerability) tuple of a Finding
IdentityTuple(f) ==
    <<f.filename,
      IF "lines_affected" \in DOMAIN f THEN <<"lines", f.lines_affected>> ELSE <<"absent">>,
      f.vulnerability>>

\* C30: Identity is the tuple, not its rendering.  addFindings() never takes
\* two Findings whose (filename, lines_affected, vulnerability) tuples differ
\* for the same issue: a Finding whose tuple differs from that of every
\* stored Finding is appended, also when a name contains "|" or when
\* lines_affected is missing in one and empty in the other.
C30_KeyInjectiveOnTuples ==
    [][(call'.op = "addFindings" /\ Len(call'.arg) = 1) =>
          LET g == call'.arg[1]
          IN  (\A i \in 1..Len(findings) : IdentityTuple(findings[i]) # IdentityTuple(g))
                  => findings' = findings \o <<g>>
      ]_vars


\* how many elements of the sequence fs are the record f
CountRecord(fs, f) == Cardinality({i \in 1..Len(fs) : fs[i] = f})

\* C31: First entry wins. When addFindings receives a Finding whose key is
\* that of a stored Finding, every stored Finding keeps all its field values
\* and its position, and the later record is discarded: the store holds no
\* more copies of it than before.
C31_FirstEntryWins ==
    [][call'.op = "addFindings" =>
          /\ IsPrefix(findings, findings')
          /\ \A i \in 1..Len(call'.arg) :
                 LET g == call'.arg[i]
                 IN  (g # JNull /\ \E j \in 1..Len(findings) : key(findings[j]) = key(g))
                         => CountRecord(findings', g) = CountRecord(findings, g)
      ]_vars

\* the store held FA, and a call that submitted FA2 (FA's key, another
\* risk_score) left FA in its place
C31_Witness ==
    /\ call.op = "addFindings" /\ call.dropped >= 1
    /\ \E i \in 1..Len(call.arg) : call.arg[i] = FA2
    /\ Len(findings) >= 1 /\ findings[1] = FA
    /\ CountRecord(findings, FA2) = 0


\* C32: The tree's scanning flag tracks scan activity. In every reachable
\* state, if a command scan has started and has not reached its end step,
\* the scanning flag is true: a false flag means no scan is in progress.
C32_ScanningTracksActivity ==
    (\E p \in Invocations : Running(p)) => scanning


\* C33: Scan result provenance. When a scan reaches its end step, every
\* Finding in the store was appended by that same scan, from one of its own
\* analyzer responses; none comes from another invocation.
C33_ResultProvenance ==
    [][\A p \in Invocations :
          (Running(p) /\ pc'[p] = "idle") =>
              /\ Len(origin') = Len(findings')
              /\ \A i \in 1..Len(origin') : origin'[i][1] = p
      ]_vars


\* C34: While a panel scan is in progress the durable combined snapshot has
\* scanning = true and the panel's Start Scan button stays disabled (the
\* spinner shows), also when the view is resolved again during the scan.
C34_PanelScanHoldsScanning ==
    RunRunning =>
        /\ globalState.data # Absent
        /\ globalState.data.value.scanning
        /\ webview.scanning


\* C35: No stuck panel after a restart. When the panel has been resolved in
\* a process that runs no panel scan, it does not stay in the scanning
\* display with the Start Scan button disabled: the button is enabled again
\* at some later time, so that a new scan can be started from the panel.
C35_NoStuckPanel ==
    [](view = "resolved" /\ run.pc = "idle" /\ webview.scanning
          => <>(view = "resolved" /\ ~webview.scanning))


\* the awaits of runSecurityScan's code phase, the last ones of the call
CodePhase == {"findSourceCodeFiles", "analyzeCode"}

\* C36: Every panel scan ends by posting scanning = false and its findings.
\* Whatever the analyzer responses held, records that are null included,
\* the segment that leaves the last await returns from runSecurityScan
\* normally and goes through setScanning(false) and setFindings.
C36_PanelScanReturns ==
    [][(run.pc \in CodePhase /\ run'.pc \notin CodePhase /\ view' = "resolved") =>
          /\ run'.pc = "idle"
          /\ ~webview'.scanning
          /\ globalState'.data = Stored(FullState(FALSE, latestFindings'))
      ]_vars


\* C37: After a panel scan, the findings the panel holds and persists have
\* no two entries with the same identity key that came from different
\* analyzer responses.  (Every response of PanelResponses carries at most
\* one record, so two entries always come from different responses.)
C37_PanelFindingsDeduplicated ==
    [][PanelScanEnds =>
          /\ \A i, j \in 1..Len(latestFindings') :
                 i # j => key(latestFindings'[i]) # key(latestFindings'[j])
          /\ globalState'.securityScanFindings = Stored(latestFindings')
      ]_vars


\* the file a POSIX path denotes: runs of "/" count as one, a "/" at the
\* end does not count
Denoted(name) ==
    LET c == CollapseSlashes(name)
    IN  IF Len(c) > 1 /\ c[Len(c)] = "/" THEN SubSeq(c, 1, Len(c) - 1) ELSE c

\* C38: Normalize/resolve round trip. For every Finding filename p, the path
\* revealFinding opens for the normalized filename is the file p denoted:
\* when p was rewritten, the root joined with the result is p, and when p
\* was left unchanged as an absolute path, p is opened.
C38_NormalizeRevealRoundTrip ==
    [][(run.pc = "findSourceCodeFiles" /\ run'.pc = "idle") =>
          \A i \in 1..Len(run.findings) :
              "filename" \in DOMAIN run.findings[i] =>
                  LET p == run.findings[i].filename
                      q == latestFindings'[i].filename
                  IN  (q # p \/ isAbsolute(p)) =>
                          Denoted(RevealPath(workspaceFolders, q)) = Denoted(p)
      ]_vars


=============================================================================
